---- MODULE Spec2Model ----
(***************************************************************************)
(* State-machine model of shelf_track.py: a console inventory manager over *)
(* an SQLite file with the tables author and book.  Text is modelled as    *)
(* sequences of one-character strings so that str.strip, int() and SQL     *)
(* LIKE are computed, not assumed.                                         *)
(***************************************************************************)
EXTENDS Integers, Sequences, FiniteSets, TLC

----------------------------------------------------------------------------
(* Bounds of the model.                                                    *)

\* operations dispatched by the menu over the life of the store (Spec)
MaxOps == 2
\* operations dispatched over the life of the store (SpecDeep, narrow inputs)
MaxOpsDeep == 5
\* times the program is started on the same database file
MaxRuns == 2

----------------------------------------------------------------------------
(* Text: str.strip(), int(), SQL LIKE.                                     *)

Whitespace == {" "}

DigitChars == <<"0", "1", "2", "3", "4", "5", "6", "7", "8", "9">>

UpperChars == <<"A", "B", "C", "D", "E", "F", "G", "H", "I", "J", "K", "L", "M",
                "N", "O", "P", "Q", "R", "S", "T", "U", "V", "W", "X", "Y", "Z">>

LowerChars == <<"a", "b", "c", "d", "e", "f", "g", "h", "i", "j", "k", "l", "m",
                "n", "o", "p", "q", "r", "s", "t", "u", "v", "w", "x", "y", "z">>

RECURSIVE lstrip(_)
lstrip(s) ==
    IF s # <<>> /\ Head(s) \in Whitespace THEN lstrip(Tail(s)) ELSE s

RECURSIVE rstrip(_)
rstrip(s) ==
    IF s # <<>> /\ s[Len(s)] \in Whitespace
    THEN rstrip(SubSeq(s, 1, Len(s) - 1))
    ELSE s

\* mutant of strip: only leading whitespace is removed
strip_leading_only(s) == lstrip(s)

\* str.strip(): leading and trailing whitespace removed
strip(s) == rstrip(lstrip(s))

IsDigit(c) == \E i \in 1..Len(DigitChars) : DigitChars[i] = c

DigitVal(c) == (CHOOSE i \in 1..Len(DigitChars) : DigitChars[i] = c) - 1

\* the digits of an int() literal: digits, single underscores between digits
DigitString(s) ==
    /\ s # <<>>
    /\ IsDigit(s[1])
    /\ IsDigit(s[Len(s)])
    /\ \A i \in 1..Len(s) : IsDigit(s[i]) \/ s[i] = "_"
    /\ \A i \in 1..(Len(s) - 1) : ~(s[i] = "_" /\ s[i + 1] = "_")

RECURSIVE DigitsValue(_, _)
DigitsValue(s, acc) ==
    IF s = <<>> THEN acc
    ELSE IF Head(s) = "_" THEN DigitsValue(Tail(s), acc)
    ELSE DigitsValue(Tail(s), acc * 10 + DigitVal(Head(s)))

\* int(text): ok = FALSE stands for ValueError
int(text) ==
    LET s      == strip(text)
        signed == s # <<>> /\ Head(s) \in {"+", "-"}
        digits == IF signed THEN Tail(s) ELSE s
    IN  IF DigitString(digits)
        THEN [ok  |-> TRUE,
              val |-> IF signed /\ Head(s) = "-"
                      THEN 0 - DigitsValue(digits, 0)
                      ELSE DigitsValue(digits, 0)]
        ELSE [ok |-> FALSE, val |-> 0]

\* SQLite LIKE folds the case of ASCII letters
Fold(c) ==
    IF \E i \in 1..Len(UpperChars) : UpperChars[i] = c
    THEN LowerChars[CHOOSE i \in 1..Len(UpperChars) : UpperChars[i] = c]
    ELSE c

\* text LIKE pattern: % matches any run of characters, _ any one character
RECURSIVE Like(_, _)
Like(pattern, text) ==
    IF pattern = <<>> THEN text = <<>>
    ELSE IF Head(pattern) = "%"
         THEN Like(Tail(pattern), text)
              \/ (text # <<>> /\ Like(pattern, Tail(text)))
    ELSE /\ text # <<>>
         /\ (Head(pattern) = "_" \/ Fold(Head(pattern)) = Fold(Head(text)))
         /\ Like(Tail(pattern), Tail(text))

----------------------------------------------------------------------------
(* The store: the tables of ebookstore.db, keyed by their primary key.     *)

NoRows == [i \in {} |-> 0]

\* the database file before create_tables has ever run
NoDatabase == [tables |-> {}, author |-> NoRows, book |-> NoRows]

SeedAuthors ==
    << [id |-> 1290,
        name |-> <<"C", "h", "a", "r", "l", "e", "s", " ", "D", "i", "c", "k", "e", "n", "s">>,
        country |-> <<"E", "n", "g", "l", "a", "n", "d">>],
       [id |-> 8937,
        name |-> <<"J", ".", "K", ".", " ", "R", "o", "w", "l", "i", "n", "g">>,
        country |-> <<"E", "n", "g", "l", "a", "n", "d">>],
       [id |-> 2356,
        name |-> <<"C", ".", "S", ".", " ", "L", "e", "w", "i", "s">>,
        country |-> <<"I", "r", "e", "l", "a", "n", "d">>],
       [id |-> 6380,
        name |-> <<"J", ".", "R", ".", "R", ".", " ", "T", "o", "l", "k", "i", "e", "n">>,
        country |-> <<"S", "o", "u", "t", "h", " ", "A", "f", "r", "i", "c", "a">>],
       [id |-> 5620,
        name |-> <<"L", "e", "w", "i", "s", " ", "C", "a", "r", "r", "o", "l", "l">>,
        country |-> <<"E", "n", "g", "l", "a", "n", "d">>] >>

SeedBooks ==
    << [id |-> 3001,
        title |-> <<"A", " ", "T", "a", "l", "e", " ", "o", "f", " ", "T", "w", "o", " ",
                    "C", "i", "t", "i", "e", "s">>,
        authorID |-> 1290, qty |-> 30],
       [id |-> 3002,
        title |-> <<"H", "a", "r", "r", "y", " ", "P", "o", "t", "t", "e", "r", " ",
                    "a", "n", "d", " ", "t", "h", "e", " ", "P", "h", "i", "l", "o", "s",
                    "o", "p", "h", "e", "r", "'", "s", " ", "S", "t", "o", "n", "e">>,
        authorID |-> 8937, qty |-> 40],
       [id |-> 3003,
        title |-> <<"T", "h", "e", " ", "L", "i", "o", "n", ",", " ", "t", "h", "e", " ",
                    "W", "i", "t", "c", "h", " ", "a", "n", "d", " ", "t", "h", "e", " ",
                    "W", "a", "r", "d", "r", "o", "b", "e">>,
        authorID |-> 2356, qty |-> 25],
       [id |-> 3004,
        title |-> <<"T", "h", "e", " ", "L", "o", "r", "d", " ", "o", "f", " ", "t", "h",
                    "e", " ", "R", "i", "n", "g", "s">>,
        authorID |-> 6380, qty |-> 37],
       [id |-> 3005,
        title |-> <<"A", "l", "i", "c", "e", "'", "s", " ", "A", "d", "v", "e", "n", "t",
                    "u", "r", "e", "s", " ", "i", "n", " ", "W", "o", "n", "d", "e", "r",
                    "l", "a", "n", "d">>,
        authorID |-> 5620, qty |-> 12] >>

AuthorRow(r) == [name |-> r.name, country |-> r.country]

BookRow(r) == [title |-> r.title, authorID |-> r.authorID, qty |-> r.qty]

\* SELECT COUNT(*) FROM table
count(table) == Cardinality(DOMAIN table)

\* mutant of Insert: INSERT OR REPLACE, a taken id is overwritten
InsertOrReplace(table, id, row) ==
    [ok |-> TRUE, table |-> (id :> row) @@ [x \in DOMAIN table \ {id} |-> table[x]]]

\* INSERT INTO table VALUES (id, ...): the primary key rejects a taken id
Insert(table, id, row) ==
    IF id \in DOMAIN table
    THEN [ok |-> FALSE, table |-> table]
    ELSE [ok |-> TRUE, table |-> (id :> row) @@ table]

\* cursor.executemany("INSERT INTO author ...", rows)
RECURSIVE InsertAuthors(_, _)
InsertAuthors(table, rows) ==
    IF rows = <<>> THEN [ok |-> TRUE, table |-> table]
    ELSE LET r == Insert(table, Head(rows).id, AuthorRow(Head(rows)))
         IN  IF r.ok THEN InsertAuthors(r.table, Tail(rows)) ELSE r

\* cursor.executemany("INSERT INTO book ...", rows)
RECURSIVE InsertBooks(_, _)
InsertBooks(table, rows) ==
    IF rows = <<>> THEN [ok |-> TRUE, table |-> table]
    ELSE LET r == Insert(table, Head(rows).id, BookRow(Head(rows)))
         IN  IF r.ok THEN InsertBooks(r.table, Tail(rows)) ELSE r

\* what a call leaves behind: the store, how the call ended ("ok", "error" =
\* caught and printed, "raised" = the exception left the function), the lines
\* printed (an error line carries the exception), the rows displayed and the
\* inputs it consumed
Result(db, status, msgs, rows, read) ==
    [db |-> db, status |-> status, msgs |-> msgs, rows |-> rows, read |-> read]

\* CREATE TABLE IF NOT EXISTS author / book; fault: the storage engine raises
create_tables(db, fault) ==
    IF fault THEN Result(db, "raised", <<>>, <<>>, <<>>)
    ELSE Result([db EXCEPT !.tables = @ \cup {"author", "book"}],
                "ok", <<>>, <<>>, <<>>)

\* mutant of populate_tables: the emptiness checks are left out
populate_tables_unguarded(db, fault) ==
    IF fault \/ ~({"author", "book"} \subseteq db.tables)
    THEN Result(db, "raised", <<>>, <<>>, <<>>)
    ELSE LET a == InsertAuthors(db.author, SeedAuthors)
             b == InsertBooks(db.book, SeedBooks)
         IN  IF a.ok /\ b.ok
             THEN Result([db EXCEPT !.author = a.table, !.book = b.table],
                         "ok", <<>>, <<>>, <<>>)
             ELSE Result(db, "raised", <<>>, <<>>, <<>>)

\* mutant of populate_tables: one emptiness check, of author, guards both
populate_tables_one_check(db, fault) ==
    IF fault \/ ~({"author", "book"} \subseteq db.tables)
    THEN Result(db, "raised", <<>>, <<>>, <<>>)
    ELSE LET seed == count(db.author) = 0
             a == IF seed THEN InsertAuthors(db.author, SeedAuthors)
                  ELSE [ok |-> TRUE, table |-> db.author]
             b == IF seed THEN InsertBooks(db.book, SeedBooks)
                  ELSE [ok |-> TRUE, table |-> db.book]
         IN  IF a.ok /\ b.ok
             THEN Result([db EXCEPT !.author = a.table, !.book = b.table],
                         "ok", <<>>, <<>>, <<>>)
             ELSE Result(db, "raised", <<>>, <<>>, <<>>)

\* mutant of populate_tables: INSERT OR IGNORE of the seed rows, no check
populate_tables_fill_missing(db, fault) ==
    IF fault \/ ~({"author", "book"} \subseteq db.tables)
    THEN Result(db, "raised", <<>>, <<>>, <<>>)
    ELSE Result([db EXCEPT
                    !.author = @ @@ [a \in {SeedAuthors[i].id : i \in DOMAIN SeedAuthors} |->
                        AuthorRow(SeedAuthors[CHOOSE i \in DOMAIN SeedAuthors :
                                                SeedAuthors[i].id = a])],
                    !.book = @ @@ [b \in {SeedBooks[i].id : i \in DOMAIN SeedBooks} |->
                        BookRow(SeedBooks[CHOOSE i \in DOMAIN SeedBooks :
                                            SeedBooks[i].id = b])]],
                "ok", <<>>, <<>>, <<>>)

\* seed each table that is empty; an exception rolls the transaction back
populate_tables(db, fault) ==
    IF fault \/ ~({"author", "book"} \subseteq db.tables)
    THEN Result(db, "raised", <<>>, <<>>, <<>>)
    ELSE LET a == IF count(db.author) = 0
                  THEN InsertAuthors(db.author, SeedAuthors)
                  ELSE [ok |-> TRUE, table |-> db.author]
             b == IF count(db.book) = 0
                  THEN InsertBooks(db.book, SeedBooks)
                  ELSE [ok |-> TRUE, table |-> db.book]
         IN  IF a.ok /\ b.ok
             THEN Result([db EXCEPT !.author = a.table, !.book = b.table],
                         "ok", <<>>, <<>>, <<>>)
             ELSE Result(db, "raised", <<>>, <<>>, <<>>)

\* main(): create_tables() then populate_tables(), the storage engine sound
initialise(db) ==
    LET created == create_tables(db, FALSE)
    IN  IF created.status = "ok" THEN populate_tables(created.db, FALSE) ELSE created

----------------------------------------------------------------------------
(* The five operations, as functions of the store and the operator's input *)
(* (in.fault: the storage engine raises on the call's first statement).    *)

RECURSIVE SortedIds(_)
SortedIds(S) ==
    IF S = {} THEN <<>>
    ELSE LET m == CHOOSE x \in S : \A y \in S : x <= y
         IN  <<m>> \o SortedIds(S \ {m})

\* enter_book(): INSERT INTO book VALUES (id, title, authorID, qty)
enter_book(db, in) ==
    LET id       == int(in.id)
        title    == strip(in.title)
        authorID == int(in.authorID)
        qty      == int(in.qty)
        failed(read, e) == Result(db, "error", <<"error_adding", e>>, <<>>, read)
        all      == <<in.id, in.title, in.authorID, in.qty>>
    IN  IF ~id.ok THEN failed(<<in.id>>, "ValueError")
        ELSE IF ~authorID.ok
        THEN failed(<<in.id, in.title, in.authorID>>, "ValueError")
        ELSE IF ~qty.ok THEN failed(all, "ValueError")
        ELSE IF in.fault THEN failed(all, "OperationalError")
        ELSE LET r == Insert(db.book, id.val,
                             [title |-> title, authorID |-> authorID.val,
                              qty |-> qty.val])
             IN  IF r.ok
                 THEN Result([db EXCEPT !.book = r.table], "ok", <<"added">>,
                             <<>>, all)
                 ELSE failed(all, "IntegrityError")

\* mutant of UpdateQty: the WHERE clause is left out
UpdateQtyEveryRow(book, id, qty) ==
    [b \in DOMAIN book |-> [book[b] EXCEPT !.qty = qty]]

\* UPDATE book SET qty = ? WHERE id = ?
UpdateQty(book, id, qty) ==
    [b \in DOMAIN book |-> IF b = id THEN [book[b] EXCEPT !.qty = qty] ELSE book[b]]

\* UPDATE book SET title = ? WHERE id = ?
UpdateTitle(book, id, title) ==
    [b \in DOMAIN book |-> IF b = id THEN [book[b] EXCEPT !.title = title] ELSE book[b]]

\* UPDATE book SET authorID = ? WHERE id = ?
UpdateAuthorID(book, id, authorID) ==
    [b \in DOMAIN book |->
        IF b = id THEN [book[b] EXCEPT !.authorID = authorID] ELSE book[b]]

\* UPDATE author SET name = ?, country = ? WHERE id = ?
UpdateAuthor(author, id, name, country) ==
    [a \in DOMAIN author |->
        IF a = id THEN [name |-> name, country |-> country] ELSE author[a]]

\* mutant of OrCurrent: the "or current" default is left out
OrNothing(text, current) == strip(text)

\* input(...).strip() or current
OrCurrent(text, current) ==
    IF strip(text) = <<>> THEN current ELSE strip(text)

\* mutant of LinkedAuthor: the WHERE clause is left out, fetchone() takes the
\* first row of the whole join
LinkedAuthorOfAnyBook(db, book_id) ==
    LET joined == {db.book[b].authorID : b \in DOMAIN db.book} \cap DOMAIN db.author
    IN  IF joined = {} THEN {} ELSE {CHOOSE a \in joined : TRUE}

\* SELECT a.id ... FROM author a JOIN book b ON a.id = b.authorID WHERE b.id = ?
\* the ids of the authors joined to the book (at most one)
LinkedAuthor(db, book_id) ==
    IF book_id \in DOMAIN db.book
    THEN {db.book[book_id].authorID} \cap DOMAIN db.author
    ELSE {}

\* update_book(): one UPDATE chosen by the mode, then commit
update_book(db, in) ==
    LET book_id == int(in.id)
        failed(read, e) == Result(db, "error", <<"error_updating", e>>, <<>>, read)
        done(d, msgs, read) == Result(d, "ok", msgs \o <<"updated">>, <<>>, read)
        short == <<in.id, in.choice>>
        one   == <<in.id, in.choice, in.v1>>
        two   == <<in.id, in.choice, in.v1, in.v2>>
    IN  IF ~book_id.ok THEN failed(<<in.id>>, "ValueError")
        ELSE IF in.choice = <<"1">>
        THEN LET qty == int(in.v1)
             IN  IF ~qty.ok THEN failed(one, "ValueError")
                 ELSE IF in.fault THEN failed(one, "OperationalError")
                 ELSE done([db EXCEPT !.book = UpdateQty(@, book_id.val, qty.val)],
                           <<>>, one)
        ELSE IF in.choice = <<"2">>
        THEN IF in.fault THEN failed(one, "OperationalError")
             ELSE done([db EXCEPT !.book = UpdateTitle(@, book_id.val, in.v1)],
                       <<>>, one)
        ELSE IF in.choice = <<"3">>
        THEN LET authorID == int(in.v1)
             IN  IF ~authorID.ok THEN failed(one, "ValueError")
                 ELSE IF in.fault THEN failed(one, "OperationalError")
                 ELSE done([db EXCEPT
                               !.book = UpdateAuthorID(@, book_id.val, authorID.val)],
                           <<>>, one)
        ELSE IF in.choice = <<"4">>
        THEN IF in.fault THEN failed(short, "OperationalError")
             ELSE LET found == LinkedAuthor(db, book_id.val)
                  IN  IF found # {}
                      THEN LET a == CHOOSE x \in found : TRUE
                               new_name    == OrCurrent(in.v1, db.author[a].name)
                               new_country == OrCurrent(in.v2, db.author[a].country)
                           IN  done([db EXCEPT !.author =
                                        UpdateAuthor(@, a, new_name, new_country)],
                                    <<>>, two)
                      ELSE done(db, <<"author_not_found">>, short)
        ELSE done(db, <<"invalid_choice">>, short)

\* mutant of DeleteRow: the WHERE clause is left out
DeleteEveryRow(book, id) == [b \in {} |-> book[b]]

\* DELETE FROM book WHERE id = ?
DeleteRow(book, id) == [b \in DOMAIN book \ {id} |-> book[b]]

\* delete_book()
delete_book(db, in) ==
    LET book_id == int(in.id)
        failed(e) == Result(db, "error", <<"error_deleting", e>>, <<>>, <<in.id>>)
    IN  IF ~book_id.ok THEN failed("ValueError")
        ELSE IF in.fault THEN failed("OperationalError")
        ELSE Result([db EXCEPT !.book = DeleteRow(@, book_id.val)], "ok",
                    <<"deleted">>, <<>>, <<in.id>>)

\* SELECT * FROM book WHERE title LIKE '%' + keyword + '%'
SearchRows(book, keyword) ==
    LET pattern == <<"%">> \o keyword \o <<"%">>
        ids     == SortedIds({b \in DOMAIN book : Like(pattern, book[b].title)})
    IN  [i \in 1..Len(ids) |->
            [id |-> ids[i], title |-> book[ids[i]].title,
             authorID |-> book[ids[i]].authorID, qty |-> book[ids[i]].qty]]

\* search_books(): no handler, an exception leaves the function
search_books(db, in) ==
    IF in.fault THEN Result(db, "raised", <<>>, <<>>, <<in.keyword>>)
    ELSE LET results == SearchRows(db.book, strip(in.keyword))
         IN  Result(db, "ok",
                    IF results # <<>> THEN <<"search_results">> ELSE <<"no_books_found">>,
                    results, <<in.keyword>>)

\* SELECT b.title, a.name, a.country FROM book b INNER JOIN author a
\* ON b.authorID = a.id
ViewRows(db) ==
    LET ids == SortedIds({b \in DOMAIN db.book :
                            db.book[b].authorID \in DOMAIN db.author})
    IN  [i \in 1..Len(ids) |->
            [title   |-> db.book[ids[i]].title,
             name    |-> db.author[db.book[ids[i]].authorID].name,
             country |-> db.author[db.book[ids[i]].authorID].country]]

\* view_all_books(): no handler, an exception leaves the function
view_all_books(db, in) ==
    IF in.fault THEN Result(db, "raised", <<>>, <<>>, <<>>)
    ELSE Result(db, "ok", <<"book_details">>, ViewRows(db), <<>>)

----------------------------------------------------------------------------
(* What the operator types.  Inputs is used by Spec, DeepInputs by         *)
(* SpecDeep, which trades variety of input for longer sessions.            *)

Inputs ==
    [ids       |-> {<<"3", "0", "0", "1">>, <<" ", "4", "0", "0", "1", " ">>,
                    <<"4", "x">>},
     titles    |-> {<<"T", "e", "s", "t", " ", "B", "o", "o", "k">>,
                    <<" ", "T", " ">>},
     authorIDs |-> {<<"1", "2", "9", "0">>, <<"7">>, <<>>},
     qtys      |-> {<<"9", "9">>, <<"-", "5">>, <<"q">>},
     choices   |-> {<<"1">>, <<"2">>, <<"3">>, <<"4">>, <<"9">>, <<" ", "1">>},
     names     |-> {<<"C", ".", " ", "D", "i", "c", "k", "e", "n", "s">>, <<" ">>},
     countries |-> {<<"U", "K">>, <<>>},
     keywords  |-> {<<"H", "a", "r", "r", "y">>, <<"l", "i", "o", "n">>, <<>>,
                    <<" ", "T", " ">>},
     faults    |-> BOOLEAN]

DeepInputs ==
    [ids       |-> {<<"3", "0", "0", "1">>, <<"3", "0", "0", "2">>,
                    <<"3", "0", "0", "3">>, <<"3", "0", "0", "4">>,
                    <<"3", "0", "0", "5">>},
     titles    |-> {<<"T", "e", "s", "t", " ", "B", "o", "o", "k">>},
     authorIDs |-> {<<"1", "2", "9", "0">>},
     qtys      |-> {<<"9", "9">>},
     choices   |-> {<<"1">>},
     names     |-> {<<" ">>},
     countries |-> {<<>>},
     keywords  |-> {<<>>},
     faults    |-> {FALSE}]

\* the first follow-up prompt of an update mode
FirstInputs(I, choice) ==
    IF choice = <<"1">> THEN I.qtys
    ELSE IF choice = <<"2">> THEN I.titles
    ELSE IF choice = <<"3">> THEN I.authorIDs
    ELSE IF choice = <<"4">> THEN I.names
    ELSE {<<>>}

\* the second follow-up prompt (mode 4 only)
SecondInputs(I, choice) ==
    IF choice = <<"4">> THEN I.countries ELSE {<<>>}

----------------------------------------------------------------------------
(* The program: main() and the operator who may start it again.            *)

VARIABLES
    db,     \* ebookstore.db, which outlives the process
    pc,     \* where main() is: "start", "populate", "menu", "exit", "crashed"
    out,    \* the last call: its name, inputs consumed, status, lines, rows
    pre,    \* the store as the last call found it
    nops,   \* operations dispatched so far
    runs    \* times the program has been started

vars == <<db, pc, out, pre, nops, runs>>

Operations ==
    {"enter_book", "update_book", "delete_book", "search_books", "view_all_books"}

Called(op, r) ==
    [op |-> op, read |-> r.read, status |-> r.status, msgs |-> r.msgs, rows |-> r.rows]

Init ==
    /\ db = NoDatabase
    /\ pc = "start"
    /\ out = Called("start", Result(NoDatabase, "ok", <<>>, <<>>, <<>>))
    /\ pre = NoDatabase
    /\ nops = 0
    /\ runs = 1

\* main(): create_tables()
CreateTables(I) ==
    /\ pc = "start"
    /\ \E fault \in I.faults :
        LET r == create_tables(db, fault)
        IN  /\ db' = r.db
            /\ out' = Called("create_tables", r)
            /\ pc' = IF r.status = "raised" THEN "crashed" ELSE "populate"
    /\ pre' = db
    /\ UNCHANGED <<nops, runs>>

\* main(): populate_tables()
PopulateTables(I) ==
    /\ pc = "populate"
    /\ \E fault \in I.faults :
        LET r == populate_tables(db, fault)
        IN  /\ db' = r.db
            /\ out' = Called("populate_tables", r)
            /\ pc' = IF r.status = "raised" THEN "crashed" ELSE "menu"
    /\ pre' = db
    /\ UNCHANGED <<nops, runs>>

\* the menu loop runs one operation and comes back, unless it raised
Dispatch(op, r) ==
    /\ db' = r.db
    /\ out' = Called(op, r)
    /\ pc' = IF r.status = "raised" THEN "crashed" ELSE "menu"
    /\ pre' = db
    /\ nops' = nops + 1
    /\ UNCHANGED runs

\* choice == "1"
EnterBook(I, budget) ==
    /\ pc = "menu" /\ nops < budget
    /\ \E id \in I.ids, title \in I.titles, authorID \in I.authorIDs,
          qty \in I.qtys, fault \in I.faults :
        Dispatch("enter_book",
                 enter_book(db, [id |-> id, title |-> title, authorID |-> authorID,
                                 qty |-> qty, fault |-> fault]))

\* choice == "2"
UpdateBook(I, budget) ==
    /\ pc = "menu" /\ nops < budget
    /\ \E id \in I.ids, choice \in I.choices, fault \in I.faults :
        \E v1 \in FirstInputs(I, choice), v2 \in SecondInputs(I, choice) :
            Dispatch("update_book",
                     update_book(db, [id |-> id, choice |-> choice, v1 |-> v1,
                                      v2 |-> v2, fault |-> fault]))

\* choice == "3"
DeleteBook(I, budget) ==
    /\ pc = "menu" /\ nops < budget
    /\ \E id \in I.ids, fault \in I.faults :
        Dispatch("delete_book", delete_book(db, [id |-> id, fault |-> fault]))

\* choice == "4"
SearchBooks(I, budget) ==
    /\ pc = "menu" /\ nops < budget
    /\ \E keyword \in I.keywords, fault \in I.faults :
        Dispatch("search_books",
                 search_books(db, [keyword |-> keyword, fault |-> fault]))

\* choice == "5"
ViewAllBooks(I, budget) ==
    /\ pc = "menu" /\ nops < budget
    /\ \E fault \in I.faults :
        Dispatch("view_all_books", view_all_books(db, [fault |-> fault]))

\* choice == "0": the loop breaks and the process ends
Exit ==
    /\ pc = "menu"
    /\ pc' = "exit"
    /\ out' = Called("exit", Result(db, "ok", <<"goodbye">>, <<>>, <<>>))
    /\ pre' = db
    /\ UNCHANGED <<db, nops, runs>>

\* any other choice: the loop prompts again
InvalidSelection ==
    /\ pc = "menu"
    /\ out' = Called("invalid_selection",
                     Result(db, "ok", <<"invalid_selection">>, <<>>, <<>>))
    /\ pre' = db
    /\ UNCHANGED <<db, pc, nops, runs>>

\* the operator starts the program again on the same database file
Start ==
    /\ pc \in {"exit", "crashed"}
    /\ runs < MaxRuns
    /\ pc' = "start"
    /\ runs' = runs + 1
    /\ out' = Called("start", Result(db, "ok", <<>>, <<>>, <<>>))
    /\ pre' = db
    /\ UNCHANGED <<db, nops>>

Next ==
    \/ CreateTables(Inputs)
    \/ PopulateTables(Inputs)
    \/ EnterBook(Inputs, MaxOps)
    \/ UpdateBook(Inputs, MaxOps)
    \/ DeleteBook(Inputs, MaxOps)
    \/ SearchBooks(Inputs, MaxOps)
    \/ ViewAllBooks(Inputs, MaxOps)
    \/ InvalidSelection
    \/ Exit
    \/ Start

Spec == Init /\ [][Next]_vars

NextDeep ==
    \/ CreateTables(DeepInputs)
    \/ PopulateTables(DeepInputs)
    \/ EnterBook(DeepInputs, MaxOpsDeep)
    \/ UpdateBook(DeepInputs, MaxOpsDeep)
    \/ DeleteBook(DeepInputs, MaxOpsDeep)
    \/ SearchBooks(DeepInputs, MaxOpsDeep)
    \/ ViewAllBooks(DeepInputs, MaxOpsDeep)
    \/ InvalidSelection
    \/ Exit
    \/ Start

SpecDeep == Init /\ [][NextDeep]_vars

----------------------------------------------------------------------------
(* Properties.                                                             *)

\* every character of the text is whitespace
Blank(text) == \A i \in 1..Len(text) : text[i] \in Whitespace

\* t is s without its leading and trailing whitespace
StrippedOf(t, s) ==
    \E i \in 1..(Len(s) + 1), j \in 0..Len(s) :
        /\ t = SubSeq(s, i, j)
        /\ \A k \in 1..Len(s) : (k < i \/ k > j) => s[k] \in Whitespace
        /\ t # <<>> => (t[1] \notin Whitespace /\ t[Len(t)] \notin Whitespace)

\* the displayed row has the column and shows the value in it
Shows(row, column, value) == column \in DOMAIN row /\ row[column] = value

SeedAuthorTable ==
    [a \in {SeedAuthors[i].id : i \in DOMAIN SeedAuthors} |->
        AuthorRow(SeedAuthors[CHOOSE i \in DOMAIN SeedAuthors : SeedAuthors[i].id = a])]

SeedBookTable ==
    [b \in {SeedBooks[i].id : i \in DOMAIN SeedBooks} |->
        BookRow(SeedBooks[CHOOSE i \in DOMAIN SeedBooks : SeedBooks[i].id = b])]

\* the exception the last call caught and printed, if any
Caught == IF out.status = "error" THEN out.msgs[2] ELSE "none"

\* C1: no failure of one of the five operations ends the menu loop: after
\* any of them has run, whatever was raised inside it, control is back at the
\* menu prompt.
C1_MenuSurvivesOperation == out.op \in Operations => pc = "menu"

\* C2 as claimed: once enter_book has added a book under an unused id, reading
\* it back with search_books and with view_all_books gives a row with exactly
\* the title that was entered and the author that was entered.
C2_RoundTripExact ==
    (out.op = "enter_book" /\ out.status = "ok") =>
        LET id       == int(out.read[1]).val
            title    == out.read[2]
            authorID == int(out.read[3]).val
            found    == search_books(db, [keyword |-> title, fault |-> FALSE]).rows
            listed   == view_all_books(db, [fault |-> FALSE]).rows
        IN  /\ \E i \in DOMAIN found :
                /\ found[i].id = id
                /\ found[i].title = title
                /\ found[i].authorID = authorID
            /\ \E i \in DOMAIN listed :
                /\ listed[i].title = title
                /\ authorID \in DOMAIN db.author
                /\ listed[i].name = db.author[authorID].name
                /\ listed[i].country = db.author[authorID].country

\* C2 as amended: enter_book succeeds for every parseable tuple with an unused
\* id unless the storage engine fails; the stored title is the entered title
\* without its leading and trailing whitespace; search_books for the entered
\* title returns the row with that id, the stored title and the entered
\* authorID; view_all_books gains exactly one row, with the stored title and
\* that author's name and country, when the author exists, and none otherwise.
C2_RoundTripStripped ==
    /\ (/\ out.op = "enter_book"
        /\ Len(out.read) = 4
        /\ int(out.read[1]).ok /\ int(out.read[3]).ok /\ int(out.read[4]).ok
        /\ int(out.read[1]).val \notin DOMAIN pre.book)
       => (out.status = "ok" \/ Caught = "OperationalError")
    /\ (out.op = "enter_book" /\ out.status = "ok") =>
        LET id       == int(out.read[1]).val
            authorID == int(out.read[3]).val
            found    == search_books(db, [keyword |-> out.read[2], fault |-> FALSE]).rows
            listed   == view_all_books(db, [fault |-> FALSE]).rows
            before   == view_all_books(pre, [fault |-> FALSE]).rows
        IN  /\ id \in DOMAIN db.book
            /\ StrippedOf(db.book[id].title, out.read[2])
            /\ \E i \in DOMAIN found :
                /\ found[i].id = id
                /\ found[i].title = db.book[id].title
                /\ found[i].authorID = authorID
            /\ IF authorID \in DOMAIN db.author
               THEN /\ Len(listed) = Len(before) + 1
                    /\ \E i \in DOMAIN listed :
                        listed[i] = [title   |-> db.book[id].title,
                                     name    |-> db.author[authorID].name,
                                     country |-> db.author[authorID].country]
               ELSE listed = before

\* C2 witness: a title with surrounding whitespace was entered for an
\* existing author and the book was added.
C2_Witness ==
    /\ out.op = "enter_book" /\ out.status = "ok"
    /\ strip(out.read[2]) # out.read[2]
    /\ int(out.read[3]).val \in DOMAIN db.author

\* C3: when enter_book meets a numeric field that does not parse, or an id
\* that an existing book has, it reports an error and the store is exactly as
\* it was: no row inserted, every book and author row unchanged.
C3_EnterFailsWithoutEffect ==
    (/\ out.op = "enter_book"
     /\ \/ \E i \in {1, 3, 4} \cap DOMAIN out.read : ~int(out.read[i]).ok
        \/ int(out.read[1]).val \in DOMAIN pre.book)
    => /\ out.status = "error"
       /\ out.msgs[1] = "error_adding"
       /\ db = pre

\* C3 witness: every field parsed and the id was that of an existing book.
C3_Witness ==
    /\ out.op = "enter_book"
    /\ Len(out.read) = 4
    /\ \A i \in {1, 3, 4} : int(out.read[i]).ok
    /\ int(out.read[1]).val \in DOMAIN pre.book
    /\ Caught = "IntegrityError"

\* C4: initialization is idempotent.  A store on which nothing but
\* initialization has ever run holds exactly the five seed authors and the
\* five seed books, however often the program was started; and from every
\* store, initializing twice succeeds and gives the store that initializing
\* once gives.
C4_InitIdempotent ==
    /\ (pc = "menu" /\ nops = 0) =>
        /\ DOMAIN db.author = {1290, 8937, 2356, 6380, 5620}
        /\ DOMAIN db.book = 3001..3005
        /\ db.author = SeedAuthorTable
        /\ db.book = SeedBookTable
    /\ LET once  == initialise(db)
           twice == initialise(once.db)
       IN  /\ once.status = "ok"
           /\ twice.status = "ok"
           /\ twice.db = once.db

\* C4 witness: the program was started a second time on the untouched seeded
\* store and reached the menu.
C4_Witness ==
    /\ pc = "menu" /\ nops = 0 /\ runs = 2
    /\ out.op = "populate_tables" /\ out.status = "ok"
    /\ count(db.author) = 5 /\ count(db.book) = 5

\* C5 as claimed: once the store has been seeded, running initialization
\* again, after whatever the five operations did, leaves the book table and
\* the author table as they were.
C5_InitNeverReseeds ==
    (out.op = "populate_tables" /\ out.status = "ok" /\ count(pre.author) > 0)
        => (db.author = pre.author /\ db.book = pre.book)

\* C5 as amended: once the store has been seeded, running initialization again
\* leaves the author table as it was, and leaves the book table as it was
\* unless delete_book has emptied it, in which case the five seed books are
\* inserted again.
C5_InitReseedsOnlyEmptiedBooks ==
    (out.op = "populate_tables" /\ out.status = "ok" /\ count(pre.author) > 0)
        => /\ db.author = pre.author
           /\ db.book = IF DOMAIN pre.book = {} THEN SeedBookTable ELSE pre.book

\* C5 witness: initialization ran on a seeded store whose books had all been
\* deleted, and the five seed books are back.
C5_Witness ==
    /\ out.op = "populate_tables" /\ out.status = "ok"
    /\ count(pre.author) > 0
    /\ DOMAIN pre.book = {}
    /\ DOMAIN db.book = 3001..3005

\* C6: initialization seeds a table only when it is empty: a table that holds
\* a row when initialization runs, seed row or not, comes out of it unchanged.
C6_SeedsOnlyEmptyTable ==
    out.op = "populate_tables" =>
        /\ DOMAIN pre.author # {} => db.author = pre.author
        /\ DOMAIN pre.book # {} => db.book = pre.book

\* C6 witness: initialization ran on a book table holding a row that is not a
\* seed row and lacking a seed row.
C6_Witness ==
    /\ out.op = "populate_tables" /\ out.status = "ok"
    /\ \E b \in DOMAIN pre.book : b \notin 3001..3005
    /\ \E b \in 3001..3005 : b \notin DOMAIN pre.book
    /\ db.book = pre.book

\* C7: update mode 4 on a book linked to an existing author a rewrites the
\* name and country of author a alone, a blank input keeping the current
\* value; view_all_books then shows the new name and country for every book
\* whose authorID is a; no book row and no other author row changes.
C7_AuthorUpdateCascades ==
    /\ (/\ out.op = "update_book"
        /\ Len(out.read) >= 2
        /\ out.read[2] = <<"4">>
        /\ int(out.read[1]).val \in DOMAIN pre.book
        /\ pre.book[int(out.read[1]).val].authorID \in DOMAIN pre.author)
       => (Len(out.read) = 4 \/ Caught = "OperationalError")
    /\ (out.op = "update_book" /\ Len(out.read) = 4) =>
        LET a      == pre.book[int(out.read[1]).val].authorID
            listed == view_all_books(db, [fault |-> FALSE]).rows
        IN  /\ out.status = "ok"
            /\ db.book = pre.book
            /\ DOMAIN db.author = DOMAIN pre.author
            /\ \A x \in DOMAIN db.author \ {a} : db.author[x] = pre.author[x]
            /\ IF Blank(out.read[3])
               THEN db.author[a].name = pre.author[a].name
               ELSE StrippedOf(db.author[a].name, out.read[3])
            /\ IF Blank(out.read[4])
               THEN db.author[a].country = pre.author[a].country
               ELSE StrippedOf(db.author[a].country, out.read[4])
            /\ \A b \in DOMAIN db.book :
                db.book[b].authorID = a =>
                    \E i \in DOMAIN listed :
                        listed[i] = [title   |-> db.book[b].title,
                                     name    |-> db.author[a].name,
                                     country |-> db.author[a].country]
            /\ \A i \in DOMAIN listed :
                (listed[i].name = pre.author[a].name
                 /\ listed[i].name # db.author[a].name)
                    => \E x \in DOMAIN db.author \ {a} :
                           db.author[x].name = listed[i].name

\* C7 witness: the author of the given book has a second book and was given a
\* new name, the country input left blank.
C7_Witness ==
    /\ out.op = "update_book" /\ Len(out.read) = 4 /\ out.status = "ok"
    /\ Blank(out.read[4])
    /\ LET b == int(out.read[1]).val
       IN  /\ db.author[db.book[b].authorID].name # pre.author[db.book[b].authorID].name
           /\ \E b2 \in DOMAIN db.book \ {b} : db.book[b2].authorID = db.book[b].authorID

\* C8 as claimed: after update mode 1 has set the quantity of an existing book
\* b to q, the listing of view_all_books shows qty q for book b.
C8_ViewShowsQty ==
    (/\ out.op = "update_book" /\ out.status = "ok"
     /\ Len(out.read) = 3 /\ out.read[2] = <<"1">>
     /\ int(out.read[1]).val \in DOMAIN pre.book
     /\ pre.book[int(out.read[1]).val].authorID \in DOMAIN pre.author)
    => LET b      == int(out.read[1]).val
           listed == view_all_books(db, [fault |-> FALSE]).rows
       IN  \E i \in DOMAIN listed :
               /\ Shows(listed[i], "title", db.book[b].title)
               /\ Shows(listed[i], "qty", int(out.read[3]).val)

\* C8 as amended: after update mode 1 with book id b and quantity q, the book
\* table has qty q for book b and every other column and row as before (an id
\* that no book has changes nothing), the author table is unchanged, and
\* search_books, which displays qty, shows q for b and the old qty for every
\* other book; the listing of view_all_books has no qty and is unchanged.
C8_QtyReplacedInBookTable ==
    (/\ out.op = "update_book" /\ out.status = "ok"
     /\ Len(out.read) = 3 /\ out.read[2] = <<"1">>)
    => LET b      == int(out.read[1]).val
           q      == int(out.read[3]).val
           found  == search_books(db, [keyword |-> <<>>, fault |-> FALSE]).rows
       IN  /\ db.author = pre.author
           /\ DOMAIN db.book = DOMAIN pre.book
           /\ \A x \in DOMAIN db.book :
               /\ db.book[x].title = pre.book[x].title
               /\ db.book[x].authorID = pre.book[x].authorID
               /\ db.book[x].qty = IF x = b THEN q ELSE pre.book[x].qty
               /\ \E i \in DOMAIN found :
                   found[i].id = x /\ found[i].qty = db.book[x].qty
           /\ Len(found) = Cardinality(DOMAIN db.book)
           /\ view_all_books(db, [fault |-> FALSE]).rows
                  = view_all_books(pre, [fault |-> FALSE]).rows
           /\ \A i \in DOMAIN view_all_books(db, [fault |-> FALSE]).rows :
               "qty" \notin DOMAIN view_all_books(db, [fault |-> FALSE]).rows[i]

\* C8 witness: mode 1 changed the quantity of an existing book while another
\* book had a different quantity.
C8_Witness ==
    /\ out.op = "update_book" /\ out.status = "ok"
    /\ Len(out.read) = 3 /\ out.read[2] = <<"1">>
    /\ LET b == int(out.read[1]).val
       IN  /\ b \in DOMAIN pre.book
           /\ db.book[b].qty # pre.book[b].qty
           /\ \E x \in DOMAIN db.book \ {b} : db.book[x].qty # db.book[b].qty

\* C9: update_book changes nothing in its two edge cases: a mode choice other
\* than "1".."4" prints the invalid-choice line; mode 4 on a book id with no
\* author joined to it (no such book, or no author row for its authorID)
\* prints the not-found line; the store is as it was in both.
C9_UpdateEdgeCasesNoMutation ==
    (out.op = "update_book" /\ Len(out.read) >= 2 /\ Caught # "OperationalError") =>
        LET b == int(out.read[1]).val
        IN  /\ out.read[2] \notin {<<"1">>, <<"2">>, <<"3">>, <<"4">>}
                => (out.msgs[1] = "invalid_choice" /\ db = pre)
            /\ (/\ out.read[2] = <<"4">>
                /\ \/ b \notin DOMAIN pre.book
                   \/ pre.book[b].authorID \notin DOMAIN pre.author)
                => (out.msgs[1] = "author_not_found" /\ db = pre)

\* C9 witness: mode 4 was chosen for an existing book whose authorID has no
\* author row.
C9_Witness ==
    /\ out.op = "update_book" /\ out.status = "ok"
    /\ out.msgs[1] = "author_not_found"
    /\ int(out.read[1]).val \in DOMAIN pre.book

\* C10: delete_book with id b removes the book row b if there is one and is a
\* no-op otherwise, reporting success either way; every other book row and
\* every author row stays; no search returns a row with id b afterwards, and
\* an id comes back into the book table only by being inserted again.
C10_DeleteExactlyOne ==
    /\ [](/\ (out.op = "delete_book" /\ int(out.read[1]).ok)
              => (out.status = "ok" \/ Caught = "OperationalError")
          /\ (out.op = "delete_book" /\ out.status = "ok") =>
                LET b == int(out.read[1]).val
                IN  /\ out.msgs = <<"deleted">>
                    /\ db.author = pre.author
                    /\ DOMAIN db.book = DOMAIN pre.book \ {b}
                    /\ \A x \in DOMAIN db.book : db.book[x] = pre.book[x]
                    /\ \A k \in Inputs.keywords :
                        LET found == search_books(db, [keyword |-> k,
                                                        fault |-> FALSE]).rows
                        IN  \A i \in DOMAIN found : found[i].id # b
          /\ (out.op = "search_books" /\ out.status = "ok") =>
                \A i \in DOMAIN out.rows : out.rows[i].id \in DOMAIN db.book)
    /\ [][\A b \in DOMAIN db'.book \ DOMAIN db.book :
            \/ out'.op = "populate_tables"
            \/ out'.op = "enter_book" /\ out'.status = "ok"
                 /\ int(out'.read[1]).val = b]_vars

\* C10 witness: an existing book was deleted while other books remained.
C10_Witness ==
    /\ out.op = "delete_book" /\ out.status = "ok"
    /\ int(out.read[1]).val \in DOMAIN pre.book
    /\ int(out.read[1]).val \notin DOMAIN db.book
    /\ DOMAIN db.book # {}

====
